---- MODULE Spec2Model ----
(***************************************************************************)
(* FRHEED: the live data-routing path of RHEEDWidget (plot_data,           *)
(* remove_line, _init_ui, closeEvent in FRHEED/widgets/rheed_widgets.py)   *)
(* and the settings persistence helpers of frheed/utils.py                 *)
(* (save_settings, load_settings, snip_lists).                             *)
(*                                                                         *)
(* Python dicts are functions with a finite domain; a dict whose iteration *)
(* order matters (a batch, the worker's channel data) is a sequence of     *)
(* [key, rec] entries in insertion order.  An exception that leaves a      *)
(* handler is recorded in `raised`.                                        *)
(***************************************************************************)
EXTENDS Integers, Sequences, FiniteSets, TLC

VARIABLES
    initialized,    \* RHEEDWidget._initialized
    cam_selection,  \* the CameraSelection dialog: "open" or "closed"
    parent,         \* Qt parent of region_plot, profile_plot, self, plot_grid
    connections,    \* per VideoWidget created: connections data_ready -> plot_data
    plot_items,     \* per sink: PlotWidget.plot_items, colour -> data of its curve
    items,          \* per sink: how many curve items its plot_widget holds per colour
    destroyed,      \* the sinks whose underlying Qt object has been deleted
    data,           \* camera_widget.analysis_worker.data (ordered dict)
    running,        \* the analysis worker still analyses frames
    queue,          \* data_ready batches emitted and not yet delivered
    calls,          \* the sink calls made by the last plot_data, in order
    raised,         \* the exception the last handler let escape, or "none"
    lastOp,         \* the last handler run and its arguments
    config_file,    \* CONFIG_DIR: settings name -> the JSON document saved
    saved,          \* the settings last passed to save_settings, per name
    loaded,         \* what the last load_settings returned
    emitted,        \* log: the batches emitted, in the order of their emission
    processed,      \* log: the batches plot_data was called with, in order
    removed         \* log: the colours remove_line removed, not drawn again since

widgetVars == <<initialized, cam_selection, parent, connections, plot_items,
                items, destroyed, data, running, queue, calls, raised, lastOp>>
settingsVars == <<config_file, saved, loaded>>
logVars == <<emitted, processed, removed>>
vars == <<widgetVars, settingsVars, logVars>>

----------------------------------------------------------------------------
\* Bounds of the model.
MaxQueue == 1
MaxInit == 2
MaxLen == 2
MaxSettings == 2
MaxInFlight == 2
MaxEmitted == 3

\* The colour names that key the channels, and the shape kinds.
Keys == {"red", "blue"}
RegionKinds == {"rectangle", "ellipse"}
ShapeKinds == RegionKinds \cup {"line"}
\* The kinds of the shapes drawn in the runs of Spec.
DrawnKinds == {"rectangle", "line"}
Kinds == ShapeKinds \cup {"polygon"}
Sinks == {"region_plot", "profile_plot"}

----------------------------------------------------------------------------
\* Sequence and dict helpers.

Min(a, b) == IF a <= b THEN a ELSE b

\* L[:n]
Prefix(L, n) == SubSeq(L, 1, Min(n, Len(L)))

\* L[-1]
Last(L) == L[Len(L)]

\* The keys of an ordered dict.
KeysOf(d) == {d[i].key : i \in DOMAIN d}

\* An ordered dict without key.
Without(d, key) == SelectSeq(d, LAMBDA e : e.key # key)

\* dict.pop(key) on a plain dict (a function): the dict that remains.
DictPop(d, key) == [k \in (DOMAIN d) \ {key} |-> d[k]]

\* d[key] = value on a plain dict.
DictSet(d, key, value) == [k \in (DOMAIN d) \cup {key} |->
                              IF k = key THEN value ELSE d[k]]

EmptyDict == [k \in {} |-> 0]

----------------------------------------------------------------------------
\* The records of a batch (the values of analysis_worker.data).  A region
\* channel carries its time stamps and averages, a line channel the history
\* of its profile vectors; the worker appends one sample per analysed frame,
\* and the receiving thread may see the two region lists at different
\* lengths.

Times(m) == [i \in 1..m |-> i]
Averages(n) == [i \in 1..n |-> 10 + i]
Profile(i) == <<20 + i, 30 + i>>
History(k) == [i \in 1..k |-> Profile(i)]

RegionRecord(kind, m, n) == [kind |-> kind, time |-> Times(m), average |-> Averages(n)]
LineRecord(k) == [kind |-> "line", y |-> History(k)]
OtherRecord(kind) == [kind |-> kind]

Records ==
    {RegionRecord(kind, m, n) : kind \in RegionKinds, m \in 0..MaxLen, n \in 0..MaxLen}
    \cup {LineRecord(k) : k \in 1..MaxLen}
    \cup {OtherRecord(kind) : kind \in Kinds \ (RegionKinds \cup {"line"})}

\* The record the worker holds for a channel after its first analysed frame.
SampleRecord(kind) ==
    IF kind \in RegionKinds THEN RegionRecord(kind, 1, 1)
    ELSE IF kind = "line" THEN LineRecord(1)
    ELSE OtherRecord(kind)

\* Every batch over Keys with records of R, in every insertion order.
BatchesOf(R) ==
    {<<>>}
    \cup {<<[key |-> k, rec |-> r]>> : k \in Keys, r \in R}
    \cup {b \in {<<[key |-> k1, rec |-> r1], [key |-> k2, rec |-> r2]>> :
                    k1 \in Keys, k2 \in Keys, r1 \in R, r2 \in R} :
            b[1].key # b[2].key}

\* The batches handed to plot_data directly: one channel with any record, or
\* two channels after their first frame.
Batches ==
    {b \in BatchesOf(Records) : Len(b) <= 1}
    \cup BatchesOf({SampleRecord(kind) : kind \in Kinds})

----------------------------------------------------------------------------
\* Mutant of SnipLists: the lists are passed on as they are.
SnipListsUncut(L1, L2) == <<L1, L2>>

\* utils.snip_lists for two lists.
SnipLists(L1, L2) ==
    LET min_len == Min(Len(L1), Len(L2))
    IN  <<Prefix(L1, min_len), Prefix(L2, min_len)>>

----------------------------------------------------------------------------
\* The sinks.  A curve is modelled by the positional arguments of its last
\* setData; a curve that was created and never given data holds <<>>.

NewCurve == <<>>

\* A logged call: ok is FALSE when it raised, made is TRUE when it created a
\* curve.
Call(sink, op, key, ok, made) ==
    [sink |-> sink, op |-> op, key |-> key, ok |-> ok, made |-> made]

\* PlotWidget.add_curve(color) on sink, from state st of a running plot_data:
\* the curve registered for the colour is returned as it is; otherwise a new
\* one is created, added to the plot widget and registered.  Creating a curve
\* on a destroyed plot raises RuntimeError.
add_curve(st, sink, key) ==
    IF key \in DOMAIN st.plot_items[sink]
    THEN [st EXCEPT !.calls = Append(@, Call(sink, "add_curve", key, TRUE, FALSE))]
    ELSE IF sink \in destroyed
    THEN [st EXCEPT !.calls = Append(@, Call(sink, "add_curve", key, FALSE, FALSE)),
                    !.raised = "RuntimeError"]
    ELSE [st EXCEPT !.calls = Append(@, Call(sink, "add_curve", key, TRUE, TRUE)),
                    !.plot_items[sink] = DictSet(@, key, NewCurve),
                    !.items[sink][key] = @ + 1]

\* curve.setData(*args) inside try/except RuntimeError: the curve of a
\* destroyed plot raises, which is swallowed and leaves the curve as it was.
setData(st, sink, key, args) ==
    IF sink \in destroyed
    THEN [st EXCEPT !.calls = Append(@, Call(sink, "setData", key, FALSE, FALSE))]
    ELSE [st EXCEPT !.calls = Append(@, Call(sink, "setData", key, TRUE, FALSE)),
                    !.plot_items[sink][key] = args]

\* Mutant of ProfileArgs: the first profile of the history, y[0].
ProfileArgsFirst(rec) == <<Head(rec.y)>>

\* The arguments of setData for a region record, and for a line record.
RegionArgs(rec) == SnipLists(rec.time, rec.average)
ProfileArgs(rec) == <<Last(rec.y)>>

\* One iteration of the loop of plot_data.
PlotEntry(st, color, color_data) ==
    IF color_data.kind \in {"rectangle", "ellipse"}
    THEN LET st1 == add_curve(st, "region_plot", color)
         IN  IF st1.raised # "none" THEN st1
             ELSE setData(st1, "region_plot", color, RegionArgs(color_data))
    ELSE IF color_data.kind = "line"
    THEN LET st1 == add_curve(st, "profile_plot", color)
         IN  IF st1.raised # "none" THEN st1
             ELSE setData(st1, "profile_plot", color, ProfileArgs(color_data))
    ELSE st

\* The loop of plot_data over data.items(); an exception ends it.
RECURSIVE PlotLoop(_, _)
PlotLoop(st, entries) ==
    IF entries = <<>> \/ st.raised # "none" THEN st
    ELSE PlotLoop(PlotEntry(st, Head(entries).key, Head(entries).rec), Tail(entries))

\* RHEEDWidget.plot_data(data).
plot_data(batch) ==
    LET st == PlotLoop([plot_items |-> plot_items, items |-> items,
                        calls |-> <<>>, raised |-> "none"], batch)
    IN  /\ initialized
        /\ plot_items' = st.plot_items
        /\ items' = st.items
        /\ calls' = st.calls
        /\ raised' = st.raised
        /\ lastOp' = [op |-> "plot_data", batch |-> batch,
                      closing |-> cam_selection = "closed"]
        /\ UNCHANGED <<initialized, cam_selection, parent, connections,
                       destroyed, data, running, settingsVars>>

\* Mutant of Deliver: the newest batch in flight is delivered first.
DeliverNewest ==
    /\ queue # <<>>
    /\ plot_data(Last(queue))
    /\ queue' = SubSeq(queue, 1, Len(queue) - 1)

\* data_ready -> plot_data (a queued connection): the oldest batch in flight
\* is delivered to plot_data, one batch per call.
Deliver ==
    /\ queue # <<>>
    /\ plot_data(Head(queue))
    /\ queue' = Tail(queue)

DataReady ==
    /\ Deliver
    /\ UNCHANGED logVars

\* The same delivery, logged.
DataReadyLogged ==
    /\ Deliver
    /\ processed' = Append(processed, lastOp'.batch)
    /\ UNCHANGED <<emitted, removed>>

\* A batch handed to plot_data directly.
PlotBatch ==
    /\ \E batch \in Batches : plot_data(batch)
    /\ UNCHANGED <<queue, logVars>>

----------------------------------------------------------------------------
\* remove_line.

Shapes == [kind : ShapeKinds, color_name : Keys]

\* Mutant of TargetPlot: the plot is chosen by which one holds the colour.
TargetPlotHolding(shape) ==
    IF shape.color_name \in DOMAIN plot_items["profile_plot"]
    THEN "profile_plot" ELSE "region_plot"

\* Mutant of TargetPlot: the two plots are swapped.
TargetPlotInverted(shape) ==
    IF shape.kind = "line" THEN "region_plot" ELSE "profile_plot"

\* plot = self.profile_plot if shape.kind == "line" else self.region_plot
TargetPlot(shape) == IF shape.kind = "line" THEN "profile_plot" ELSE "region_plot"

\* Mutant of removeItem: the curve stays in the plot widget.
removeItemSkipped(its, plot, name) == its

\* plot.plot_widget.removeItem(curve)
removeItem(its, plot, name) == [its EXCEPT ![plot][name] = @ - 1]

\* RHEEDWidget.remove_line(shape).  plot_items.pop raises KeyError for a
\* colour the plot does not hold; removeItem on a destroyed plot raises
\* RuntimeError (after the pop); data.pop raises KeyError for a colour the
\* worker does not hold.  Nothing is caught.
remove_line(shape) ==
    LET plot == TargetPlot(shape)
        name == shape.color_name
        absent == name \notin DOMAIN plot_items[plot]
        \* what the call before did, when it was remove_line of the same shape
        prior == IF lastOp.op = "remove_line" /\ lastOp.shape = shape
                 THEN (IF lastOp.absent THEN "absent" ELSE "present")
                 ELSE "none"
    IN  /\ initialized
        /\ lastOp' = [op |-> "remove_line", shape |-> shape, absent |-> absent,
                      prior |-> prior]
        /\ calls' = <<>>
        /\ IF absent
           THEN /\ raised' = "KeyError"
                /\ UNCHANGED <<plot_items, items, data>>
           ELSE /\ plot_items' = [plot_items EXCEPT ![plot] = DictPop(@, name)]
                /\ IF plot \in destroyed
                   THEN /\ raised' = "RuntimeError"
                        /\ UNCHANGED <<items, data>>
                   ELSE /\ items' = removeItem(items, plot, name)
                        /\ IF name \notin KeysOf(data)
                           THEN /\ raised' = "KeyError"
                                /\ UNCHANGED data
                           ELSE /\ raised' = "none"
                                /\ data' = Without(data, name)
        /\ UNCHANGED <<initialized, cam_selection, parent, connections,
                       destroyed, running, queue, settingsVars>>

\* canvas.shape_deleted -> remove_line, while the canvas is on screen.
ShapeDeleted ==
    /\ cam_selection = "open"
    /\ \E shape \in Shapes : remove_line(shape)
    /\ UNCHANGED logVars

\* The same removal, logged when remove_line returned.
ShapeDeletedLogged ==
    /\ cam_selection = "open"
    /\ \E shape \in Shapes :
           /\ remove_line(shape)
           /\ removed' = IF raised' = "none"
                         THEN removed \cup {shape.color_name}
                         ELSE removed
    /\ UNCHANGED <<emitted, processed>>

----------------------------------------------------------------------------
\* Set-up and teardown.

NoItems == [s \in Sinks |-> [k \in Keys |-> 0]]
NoCurves == [s \in Sinks |-> EmptyDict]

\* RHEEDWidget._init_ui(): a new VideoWidget (with its own analysis worker)
\* and a new PlotGridWidget replace the attributes of the widget, and
\* data_ready of the new worker is connected to plot_data.
_init_ui ==
    /\ cam_selection = "open"
    /\ Len(connections) < MaxInit
    /\ initialized' = TRUE
    /\ parent' = [w \in {"self", "plot_grid", "region_plot", "profile_plot"} |->
                    IF w = "self" THEN parent["self"]
                    ELSE IF w = "plot_grid" THEN "self" ELSE "plot_grid"]
    /\ plot_items' = NoCurves
    /\ items' = NoItems
    /\ destroyed' = {}
    /\ data' = <<>>
    /\ running' = TRUE
    /\ connections' = Append(connections, 1)
    /\ calls' = <<>>
    /\ raised' = "none"
    /\ lastOp' = [op |-> "_init_ui"]
    /\ UNCHANGED <<cam_selection, queue, settingsVars, logVars>>

\* VideoWidget.closeEvent: acquisition and analysis stop.
VideoWidgetCloseEvent == running' = FALSE

\* RHEEDWidget.closeEvent(event).
closeEvent ==
    /\ cam_selection = "open"
    /\ IF initialized
       THEN /\ parent' = [w \in DOMAIN parent |-> "None"]
            /\ VideoWidgetCloseEvent
       ELSE UNCHANGED <<parent, running>>
    /\ cam_selection' = "closed"
    /\ calls' = <<>>
    /\ raised' = "none"
    /\ lastOp' = [op |-> "closeEvent"]
    /\ UNCHANGED <<initialized, connections, plot_items, items, destroyed,
                   data, queue, settingsVars, logVars>>

\* Qt deletes the underlying object of a plot that was closed and has no
\* parent left; from then on its calls raise RuntimeError.
DestroySink ==
    \E sink \in Sinks :
        /\ initialized
        /\ parent[sink] = "None"
        /\ sink \notin destroyed
        /\ destroyed' = destroyed \cup {sink}
        /\ calls' = <<>>
        /\ raised' = "none"
        /\ lastOp' = [op |-> "other"]
        /\ UNCHANGED <<initialized, cam_selection, parent, connections,
                       plot_items, items, data, running, queue, settingsVars, logVars>>

----------------------------------------------------------------------------
\* The analysis worker of the current VideoWidget.

\* A frame is analysed with a shape of a new colour on the canvas: the
\* worker starts a record for it.
Analyze ==
    \E key \in Keys \ KeysOf(data), kind \in DrawnKinds :
        /\ initialized
        /\ running
        /\ data' = Append(data, [key |-> key, rec |-> SampleRecord(kind)])
        /\ calls' = <<>>
        /\ raised' = "none"
        /\ lastOp' = [op |-> "other"]
        /\ UNCHANGED <<initialized, cam_selection, parent, connections,
                       plot_items, items, destroyed, running, queue, settingsVars>>

WorkerAnalyze ==
    /\ Analyze
    /\ UNCHANGED logVars

\* The same step, logged: the colour is drawn again.
WorkerAnalyzeLogged ==
    /\ Analyze
    /\ removed' = removed \ KeysOf(data')
    /\ UNCHANGED <<emitted, processed>>

\* data_ready.emit(data): a snapshot of the data goes in flight, while fewer
\* than limit batches are.
Emit(limit) ==
    /\ initialized
    /\ running
    /\ Len(queue) < limit
    /\ queue' = Append(queue, data)
    /\ calls' = <<>>
    /\ raised' = "none"
    /\ lastOp' = [op |-> "other"]
    /\ UNCHANGED <<initialized, cam_selection, parent, connections,
                   plot_items, items, destroyed, data, running, settingsVars>>

WorkerEmit ==
    /\ Emit(MaxQueue)
    /\ UNCHANGED logVars

\* The same emission, logged.
WorkerEmitLogged ==
    /\ Len(emitted) < MaxEmitted
    /\ Emit(MaxInFlight)
    /\ emitted' = Append(emitted, data)
    /\ UNCHANGED <<processed, removed>>

----------------------------------------------------------------------------
Init ==
    /\ initialized = FALSE
    /\ cam_selection = "open"
    /\ parent = [w \in {"self"} |-> "FRHEED"]
    /\ connections = <<>>
    /\ plot_items = NoCurves
    /\ items = NoItems
    /\ destroyed = {}
    /\ data = <<>>
    /\ running = FALSE
    /\ queue = <<>>
    /\ calls = <<>>
    /\ raised = "none"
    /\ lastOp = [op |-> "__init__"]
    /\ config_file = EmptyDict
    /\ saved = EmptyDict
    /\ loaded = EmptyDict
    /\ emitted = <<>>
    /\ processed = <<>>
    /\ removed = {}

Next ==
    \/ _init_ui
    \/ closeEvent
    \/ DestroySink
    \/ WorkerAnalyze
    \/ WorkerEmit
    \/ DataReady
    \/ ShapeDeleted

Spec == Init /\ [][Next]_vars

PlotNext ==
    \/ _init_ui
    \/ PlotBatch

PlotSpec == Init /\ [][PlotNext]_vars

\* The worker and the delivery of its batches, with several batches in
\* flight and both ends logged.
OrderNext ==
    \/ _init_ui
    \/ WorkerAnalyze
    \/ WorkerEmitLogged
    \/ DataReadyLogged

OrderSpec == Init /\ [][OrderNext]_vars

\* Drawing, emission, delivery and removal interleaved, with the removals
\* logged.
RemovalNext ==
    \/ _init_ui
    \/ WorkerAnalyzeLogged
    \/ WorkerEmit
    \/ DataReady
    \/ ShapeDeletedLogged

RemovalSpec == Init /\ [][RemovalNext]_vars

----------------------------------------------------------------------------
\* Settings persistence (frheed/utils.py).  A Python value is its type name
\* and its repr as a sequence of characters; a JSON scalar is its text.

PyTrue == <<"T", "r", "u", "e">>
PyFalse == <<"F", "a", "l", "s", "e">>
JsonTrue == <<"t", "r", "u", "e">>
JsonFalse == <<"f", "a", "l", "s", "e">>
Quote == "\""
Digits == {"0", "1", "2", "3", "4", "5", "6", "7", "8", "9"}

PyValue(t, v) == [t |-> t, v |-> v]
PyStr(chars) == PyValue("str", chars)

\* type(value).__name__ as characters.
NameChars(t) ==
    CASE t = "bool" -> <<"b", "o", "o", "l">>
      [] t = "int" -> <<"i", "n", "t">>
      [] t = "float" -> <<"f", "l", "o", "a", "t">>
      [] t = "str" -> <<"s", "t", "r">>

\* The setting values of the runs: both booleans, an int, a float, and
\* strings, three of which read as a literal of another type.
Values ==
    {PyValue("bool", PyTrue), PyValue("bool", PyFalse),
     PyValue("int", <<"1">>), PyValue("float", <<"1", ".", "0">>),
     PyStr(PyTrue), PyStr(<<"1">>), PyStr(<<"1", ".", "0">>), PyStr(<<"a", "b">>)}

AllSettingNames == <<"exposure", "gain", "gamma", "fps">>
SettingNames == {AllSettingNames[i] : i \in 1..Min(MaxSettings, Len(AllSettingNames))}
GroupNames == {"camera"}
FileNames == {"FRHEED"}

\* Every dict with keys among K and values in V.
DictsOf(K, V) == UNION {[D -> V] : D \in SUBSET K}

\* Dict[str, Dict[str, Union[bool, str, float, int]]]
Settings == DictsOf(GroupNames, DictsOf(SettingNames, Values))

\* json.dump of a scalar: true/false, the repr of a number, a quoted string.
JsonDumps(value) ==
    CASE value.t = "bool" -> IF value.v = PyTrue THEN JsonTrue ELSE JsonFalse
      [] value.t = "str" -> <<Quote>> \o value.v \o <<Quote>>
      [] OTHER -> value.v

\* json.load of a scalar, by its syntax.
JsonLoads(text) ==
    IF Head(text) = Quote THEN PyStr(SubSeq(text, 2, Len(text) - 1))
    ELSE IF text = JsonTrue THEN PyValue("bool", PyTrue)
    ELSE IF text = JsonFalse THEN PyValue("bool", PyFalse)
    ELSE IF \E i \in DOMAIN text : text[i] = "." THEN PyValue("float", text)
    ELSE PyValue("int", text)

\* ast.literal_eval of a string: a boolean, a number, or ValueError.
IsDigits(chars) == chars # <<>> /\ \A i \in DOMAIN chars : chars[i] \in Digits
literal_eval(chars) ==
    IF chars \in {PyTrue, PyFalse} THEN PyValue("bool", chars)
    ELSE IF IsDigits(chars) THEN PyValue("int", chars)
    ELSE IF \E i \in DOMAIN chars :
                /\ chars[i] = "."
                /\ IsDigits(SubSeq(chars, 1, i - 1))
                /\ IsDigits(SubSeq(chars, i + 1, Len(chars)))
    THEN PyValue("float", chars)
    ELSE PyValue("ValueError", chars)

\* The entry save_settings writes for a value.
SavedEntry(value) ==
    [value |-> JsonDumps(value), type |-> JsonDumps(PyStr(NameChars(value.t)))]

\* The document save_settings dumps for settings.
SavedDocument(settings) ==
    [group_name \in DOMAIN settings |->
        [setting \in DOMAIN settings[group_name] |->
            SavedEntry(settings[group_name][setting])]]

\* Mutant of LoadedValue: every string is evaluated, whatever its type tag.
LoadedValueEvaluated(info) ==
    LET string_value == JsonLoads(info.value)
        value == IF string_value.t = "str" THEN literal_eval(string_value.v)
                 ELSE string_value
    IN  IF value.t = "ValueError" THEN string_value ELSE value

\* The value load_settings stores for an entry of the document.
LoadedValue(info) ==
    LET string_value == JsonLoads(info.value)
        type_ == JsonLoads(info.type).v
    IN  IF string_value.t # "str" THEN string_value
        ELSE IF type_ = NameChars("bool") THEN literal_eval(string_value.v)
        ELSE IF type_ \in {<<"s", "t", "r", "i", "n", "g">>, NameChars("str")}
        THEN string_value
        ELSE IF type_ \in {NameChars("float"), NameChars("int")}
        THEN literal_eval(string_value.v)
        ELSE LET value == literal_eval(string_value.v)
             IN  IF value.t = "ValueError" THEN string_value ELSE value

\* The config load_settings builds from a document.
LoadedConfig(json_dict) ==
    [group_name \in DOMAIN json_dict |->
        [setting \in DOMAIN json_dict[group_name] |->
            LoadedValue(json_dict[group_name][setting])]]

\* A literal_eval that failed inside load_settings leaves it as ValueError.
LoadError(config) ==
    IF \E g \in DOMAIN config : \E k \in DOMAIN config[g] :
           config[g][k].t = "ValueError"
    THEN "ValueError" ELSE "none"

\* save_settings(settings, name)
save_settings ==
    \E settings \in Settings, name \in FileNames :
        /\ config_file' = DictSet(config_file, name, SavedDocument(settings))
        /\ saved' = DictSet(saved, name, settings)
        /\ loaded' = EmptyDict
        /\ UNCHANGED <<widgetVars, logVars>>

\* load_settings(name): open() raises OSError when the file does not exist.
load_settings ==
    \E name \in FileNames :
        /\ IF name \notin DOMAIN config_file
           THEN loaded' = [name |-> name, error |-> "OSError"]
           ELSE LET config == LoadedConfig(config_file[name])
                IN  IF LoadError(config) # "none"
                    THEN loaded' = [name |-> name, error |-> LoadError(config)]
                    ELSE loaded' = [name |-> name, error |-> "none",
                                    config |-> config]
        /\ UNCHANGED <<config_file, saved, widgetVars, logVars>>

SettingsNext ==
    \/ save_settings
    \/ load_settings

SettingsSpec == Init /\ [][SettingsNext]_vars

----------------------------------------------------------------------------
\* Properties.  The batch of the last plot_data and what it called:

Recognized(kind) == kind \in {"rectangle", "ellipse", "line"}
SinkOfKind(kind) == IF kind = "line" THEN "profile_plot" ELSE "region_plot"

\* The calls the last plot_data made for a key, as <<sink, op>> pairs.
CallsFor(key) ==
    LET mine == SelectSeq(calls, LAMBDA c : c.key = key)
    IN  [i \in DOMAIN mine |-> <<mine[i].sink, mine[i].op>>]

\* One add-or-update on a sink: add_curve followed by setData.
AddOrUpdate(sink) == <<<<sink, "add_curve">>, <<sink, "setData">>>>

\* The keys for which a call of the last plot_data raised.
FailedKeys == {calls[i].key : i \in {j \in DOMAIN calls : ~calls[j].ok}}

\* C1: after plot_data has run on a batch, every key of the batch with a
\* recognized kind got exactly one add_curve followed by one setData, on the
\* sink of its kind, and every key with another kind got no call at all.
C1_EveryRecognizedKeyRouted ==
    lastOp.op = "plot_data" =>
        \A i \in DOMAIN lastOp.batch :
            LET e == lastOp.batch[i]
            IN  IF Recognized(e.rec.kind)
                THEN CallsFor(e.key) = AddOrUpdate(SinkOfKind(e.rec.kind))
                ELSE CallsFor(e.key) = <<>>

\* The same dispatch, as long as no sink has been destroyed.
RoutedOnLiveSinks == destroyed = {} => C1_EveryRecognizedKeyRouted

\* C2: when the sink calls of exactly one key of the batch raised, plot_data
\* let no exception escape and every other key with a recognized kind still
\* got its add_curve and setData.
C2_FailureIsolatedToItsKey ==
    (lastOp.op = "plot_data" /\ Cardinality(FailedKeys) = 1) =>
        /\ raised = "none"
        /\ \A i \in DOMAIN lastOp.batch :
               LET e == lastOp.batch[i]
               IN  (Recognized(e.rec.kind) /\ e.key \notin FailedKeys) =>
                       CallsFor(e.key) = AddOrUpdate(SinkOfKind(e.rec.kind))

\* C3: a remove_line that directly follows a remove_line of the same shape
\* changes neither the plot_items of the two sinks nor the worker's data.
C3_SecondRemoveChangesNothing ==
    [][(/\ lastOp.op = "remove_line"
        /\ lastOp'.op = "remove_line"
        /\ lastOp'.shape = lastOp.shape)
       => (plot_items' = plot_items /\ data' = data)]_vars

\* C3 witness: the second of two remove_line calls for a shape whose curve the
\* first one removed.
C3_Witness ==
    /\ lastOp.op = "remove_line"
    /\ lastOp.prior = "present"
    /\ lastOp.absent

\* C4: remove_line for a colour its target sink does not hold raises nothing
\* and leaves the colour absent from the worker's data.
C4_AbsentKeyIsNoOp ==
    (lastOp.op = "remove_line" /\ lastOp.absent) =>
        /\ raised = "none"
        /\ lastOp.shape.color_name \notin KeysOf(data)

\* C5: after plot_data, the curve of every region key of the batch holds two
\* sequences of length min(m, n), the first min(m, n) elements of time and of
\* average in their order, and plot_data raised nothing.
C5_LengthAlignment ==
    lastOp.op = "plot_data" =>
        /\ raised = "none"
        /\ \A i \in DOMAIN lastOp.batch :
               LET e == lastOp.batch[i]
                   m == IF e.rec.kind \in RegionKinds THEN Len(e.rec.time) ELSE 0
                   n == IF e.rec.kind \in RegionKinds THEN Len(e.rec.average) ELSE 0
                   shown == plot_items["region_plot"][e.key]
               IN  e.rec.kind \in RegionKinds =>
                       /\ Len(shown) = 2
                       /\ Len(shown[1]) = (IF m <= n THEN m ELSE n)
                       /\ Len(shown[2]) = (IF m <= n THEN m ELSE n)
                       /\ \A j \in 1..Len(shown[1]) :
                              /\ shown[1][j] = e.rec.time[j]
                              /\ shown[2][j] = e.rec.average[j]

\* C5 witness: a region record with unequal, non-empty lists was plotted.
C5_Witness ==
    /\ lastOp.op = "plot_data"
    /\ \E i \in DOMAIN lastOp.batch :
           LET e == lastOp.batch[i]
           IN  /\ e.rec.kind \in RegionKinds
               /\ Len(e.rec.time) # Len(e.rec.average)
               /\ Len(e.rec.time) >= 1
               /\ Len(e.rec.average) >= 1
               /\ Len(plot_items["region_plot"][e.key][1]) >= 1

\* C6: after plot_data, the curve of every line key of the batch holds the
\* last profile vector of the history and nothing else.
C6_ProfileSnapshot ==
    lastOp.op = "plot_data" =>
        \A i \in DOMAIN lastOp.batch :
            LET e == lastOp.batch[i]
            IN  e.rec.kind = "line" =>
                    /\ plot_items["profile_plot"][e.key] = <<e.rec.y[Len(e.rec.y)]>>
                    /\ \A j \in 1..(Len(e.rec.y) - 1) :
                           plot_items["profile_plot"][e.key] # <<e.rec.y[j]>>

\* C6 witness: a line record with a history of several profiles was plotted
\* and its curve shows one profile.
C6_Witness ==
    /\ lastOp.op = "plot_data"
    /\ \E i \in DOMAIN lastOp.batch :
           LET e == lastOp.batch[i]
           IN  /\ e.rec.kind = "line"
               /\ Len(e.rec.y) >= 2
               /\ Len(plot_items["profile_plot"][e.key]) = 1

\* C7: load_settings(name) after save_settings(S, name) raises nothing and
\* returns S, every value with its type.
C7_SettingsRoundTrip ==
    (DOMAIN loaded # {} /\ loaded.name \in DOMAIN saved) =>
        /\ loaded.error = "none"
        /\ loaded.config = saved[loaded.name]

\* C7 witness: settings with the string "True" next to the boolean True were
\* saved and loaded.
C7_Witness ==
    /\ DOMAIN loaded # {}
    /\ loaded.error = "none"
    /\ \E g \in DOMAIN loaded.config :
           \E a \in DOMAIN loaded.config[g], b \in DOMAIN loaded.config[g] :
               /\ saved[loaded.name][g][a] = PyStr(PyTrue)
               /\ saved[loaded.name][g][b] = PyValue("bool", PyTrue)

\* C8: a batch delivered to plot_data after closeEvent has begun causes no
\* call on any sink and no error.
C8_NoRoutingAfterClose ==
    (lastOp.op = "plot_data" /\ lastOp.closing) =>
        /\ calls = <<>>
        /\ raised = "none"

C10_SubscribedOnceUntilClose ==
    \A w \in DOMAIN connections :
        connections[w] = (IF cam_selection = "closed" THEN 0 ELSE 1)

C12_RemoveLineFrame ==
    [][lastOp'.op = "remove_line" =>
        LET name == lastOp'.shape.color_name
            sink == SinkOfKind(lastOp'.shape.kind)
        IN  name \in DOMAIN plot_items[sink] =>
                /\ DOMAIN plot_items'[sink] = (DOMAIN plot_items[sink]) \ {name}
                /\ \A k \in DOMAIN plot_items'[sink] :
                       plot_items'[sink][k] = plot_items[sink][k]
                /\ items'[sink][name] = 0
                /\ \A k \in Keys \ {name} : items'[sink][k] = items[sink][k]
                /\ \A s \in Sinks \ {sink} :
                       /\ plot_items'[s] = plot_items[s]
                       /\ items'[s] = items[s]
                /\ name \notin KeysOf(data')
                /\ data' = SelectSeq(data, LAMBDA e : e.key # name)]_vars

\* C12 witness: remove_line removed the curve and the record of one colour
\* while another colour had its curve and its record, which are still there.
C12_Witness ==
    /\ lastOp.op = "remove_line"
    /\ ~lastOp.absent
    /\ raised = "none"
    /\ lastOp.shape.color_name \notin KeysOf(data)
    /\ \A s \in Sinks : lastOp.shape.color_name \notin DOMAIN plot_items[s]
    /\ \E k \in KeysOf(data) : \E s \in Sinks :
           /\ k \in DOMAIN plot_items[s]
           /\ items[s][k] = 1

\* C13: a colour that remove_line removed has no curve in either plot until
\* a shape of that colour is drawn again, whatever batches are delivered in
\* between.
C13_RemovalIsFinal ==
    \A k \in removed : \A s \in Sinks : k \notin DOMAIN plot_items[s]

====
